---- MODULE Spec2Model ----
(***************************************************************************)
(* A model of troubleshooting/tools/tracevol.py (ceph-csi): the batch run  *)
(* that reconciles every PersistentVolumeClaim against the rados omap and  *)
(* the live rbd / cephfs inventory, and the pure helpers it is built from. *)
(*                                                                         *)
(* Python str / bytes values are sequences of one-character strings, so    *)
(* that split, strip, substring tests and the regular expression are       *)
(* computed character by character as the code computes them.              *)
(***************************************************************************)
EXTENDS Integers, Sequences, FiniteSets, TLC

VARIABLES
    pc,            \* position of the run / of the helper under test
    arg,           \* the parsed command line (PARSER.parse_args())
    pvcs,          \* the decoded claim list (pvcs['items'])
    idx,           \* number of claims of pvcs whose iteration has begun
    table_rbd,     \* rows added to the RBD table
    table_cephfs,  \* rows added to the CephFS table
    cur,           \* the claim being processed: the locals of format_table
    call,          \* helper specifications: the input handed to the helper
    ret            \* helper specifications: what the helper returned

vars == <<pc, arg, pvcs, idx, table_rbd, table_cephfs, cur, call, ret>>

(***************************************************************************)
(* Python values                                                           *)
(***************************************************************************)
\* None, kept apart from every str: no str holds a four-letter character
None == <<"None">>

\* call and ret while no helper is exercised
Idle == <<>>

(***************************************************************************)
(* str / bytes primitives                                                  *)
(***************************************************************************)
Dash == "-"

Space == " "

Newline == "\n"

Digits == <<"0", "1", "2", "3", "4", "5", "6", "7", "8", "9">>

Letters ==
    {"a", "b", "c", "d", "e", "f", "g", "h", "i", "j", "k", "l", "m",
     "n", "o", "p", "q", "r", "s", "t", "u", "v", "w", "x", "y", "z",
     "A", "B", "C", "D", "E", "F", "G", "H", "I", "J", "K", "L", "M",
     "N", "O", "P", "Q", "R", "S", "T", "U", "V", "W", "X", "Y", "Z"}

\* the character class [A-Za-z0-9\-] of the regular expression
RunChars == Letters \cup {Digits[i] : i \in 1..10} \cup {Dash}

\* the characters bytes.strip() removes
Whitespace == {" ", "\t", "\n", "\r", "\f"}

\* s[i:j] with 1-based inclusive bounds
Slice(s, i, j) == SubSeq(s, i, j)

\* the positions of s that satisfy Test, in increasing order
Positions(s, Test(_)) == SelectSeq([i \in 1..Len(s) |-> i], Test)

\* Python's `sub in s` for str / bytes
Contains(s, sub) ==
    \E i \in 0..(Len(s) - Len(sub)) :
        \A k \in 1..Len(sub) : s[i + k] = sub[k]

\* s.split(sep) for a one-character separator: always at least one token
Split(s, sep) ==
    LET seps == Positions(s, LAMBDA i : s[i] = sep)
        n == Len(seps)
        cut(k) == IF k = 0 THEN 0 ELSE IF k = n + 1 THEN Len(s) + 1 ELSE seps[k]
    IN  [k \in 1..(n + 1) |-> Slice(s, cut(k - 1) + 1, cut(k) - 1)]

\* sep.join(parts)
RECURSIVE Join(_, _)
Join(parts, sep) ==
    IF Len(parts) = 0 THEN <<>>
    ELSE IF Len(parts) = 1 THEN parts[1]
    ELSE parts[1] \o <<sep>> \o Join(Tail(parts), sep)

\* x.strip()
Strip(s) ==
    LET keep == Positions(s, LAMBDA i : s[i] \notin Whitespace)
    IN  IF Len(keep) = 0 THEN <<>> ELSE Slice(s, keep[1], keep[Len(keep)])

\* re.findall(br'[A-Za-z0-9\-]+', line): the maximal runs, left to right
FindRuns(line) ==
    LET in(i) == i >= 1 /\ i <= Len(line) /\ line[i] \in RunChars
        starts == Positions(line, LAMBDA i : in(i) /\ ~in(i - 1))
        ends == Positions(line, LAMBDA i : in(i) /\ ~in(i + 1))
    IN  [k \in 1..Len(starts) |-> Slice(line, starts[k], ends[k])]

(***************************************************************************)
(* get_image_uuid                                                          *)
(***************************************************************************)
\* a faulty variant, which rejoins the last 4 tokens; get_image_uuid follows it
get_image_uuid_keeps_four(volume_handler) ==
    LET image_id == Split(volume_handler, Dash)
    IN  IF Len(image_id) < 9 THEN None
        ELSE Join(Slice(image_id, Len(image_id) - 3, Len(image_id)), Dash)

get_image_uuid(volume_handler) ==
    LET image_id == Split(volume_handler, Dash)
    IN  IF Len(image_id) < 9 THEN None
        ELSE Join(Slice(image_id, Len(image_id) - 4, Len(image_id)), Dash)

(***************************************************************************)
(* The omap value parser of check_pv_name_in_rados and                     *)
(* check_image_uuid_in_rados (the same loop in both)                       *)
(***************************************************************************)
ValueWord == <<"v", "a", "l", "u", "e">>

BytesWord == <<"b", "y", "t", "e", "s">>

\* lines = [x.strip() for x in stdout.split(b"\n")]
StripAll(ls) == [k \in 1..Len(ls) |-> Strip(ls[k])]

\* a faulty variant, which adds the first run of the line (part[0])
line_part_first(line) ==
    IF ~Contains(line, <<Space>>) THEN <<>>
    ELSE IF Contains(line, ValueWord) /\ Contains(line, BytesWord) THEN <<>>
    ELSE LET part == FindRuns(line)
         IN  IF Len(part) > 0 THEN part[1] ELSE <<>>

\* one iteration of `for line in lines`: what is added to name
line_part(line) ==
    IF ~Contains(line, <<Space>>) THEN <<>>
    ELSE IF Contains(line, ValueWord) /\ Contains(line, BytesWord) THEN <<>>
    ELSE LET part == FindRuns(line)
         IN  IF Len(part) > 0 THEN part[Len(part)] ELSE <<>>

RECURSIVE omap_name(_)
omap_name(lines) ==
    IF Len(lines) = 0 THEN <<>>
    ELSE line_part(Head(lines)) \o omap_name(Tail(lines))

\* name, as left by the loop over the lines of stdout
omap_value(stdout) == omap_name(StripAll(Split(stdout, Newline)))

(***************************************************************************)
(* Results of the modelled functions: the exception that escaped ("" when  *)
(* none did), the value returned and the commands issued on the way.       *)
(***************************************************************************)
Ok(v, cmds) == [exc |-> "", val |-> v, calls |-> cmds]

Exc(type, cmds) == [exc |-> type, val |-> <<>>, calls |-> cmds]

Empty == <<>>

(***************************************************************************)
(* The cluster the commands talk to: volumes, pools, the omap, images      *)
(***************************************************************************)
RookNamespace == <<"r", "o", "o", "k", "-", "c", "e", "p", "h">>

DefaultPrefix == <<"c", "s", "i", "-", "v", "o", "l", "-">>

\* the volumes of the cluster: what `get pv NAME -o json` decodes to, and
\* where the driver put the volume (pool, rados namespace, image name prefix)
VolRbd ==
    [name |-> <<"p", "v", "-", "a">>, csi |-> TRUE,
     volumeHandle |-> <<"0", "0", "0", "1", "-", "0", "0", "0", "9", "-", "r", "o", "o", "k", "-", "c", "e", "p", "h", "-", "0", "1", "-", "1", "b", "0", "0", "-", "b", "1", "c", "1", "-", "1", "1", "e", "9", "-", "8", "4", "2", "1", "-", "9", "2", "f", "0">>,
     volumeAttributes |-> [pool |-> <<"r", "p", "1">>],
     uuid |-> <<"1", "b", "0", "0", "-", "b", "1", "c", "1", "-", "1", "1", "e", "9", "-", "8", "4", "2", "1", "-", "9", "2", "f", "0">>, pool |-> <<"r", "p", "1">>, ns |-> Empty,
     prefix |-> DefaultPrefix]

VolRbdPrefix ==
    [name |-> <<"p", "v", "-", "b">>, csi |-> TRUE,
     volumeHandle |-> <<"0", "0", "0", "1", "-", "0", "0", "0", "4", "-", "p", "r", "o", "d", "-", "0", "2", "-", "b", "7", "-", "c", "5", "-", "e", "9", "-", "8", "4", "-", "f", "0">>,
     volumeAttributes |-> [pool |-> <<"r", "p", "2">>, volumeNamePrefix |-> <<"i", "m", "g", "-">>],
     uuid |-> <<"b", "7", "-", "c", "5", "-", "e", "9", "-", "8", "4", "-", "f", "0">>, pool |-> <<"r", "p", "2">>, ns |-> Empty,
     prefix |-> <<"i", "m", "g", "-">>]

VolFs ==
    [name |-> <<"p", "v", "-", "c">>, csi |-> TRUE,
     volumeHandle |-> <<"0", "0", "0", "1", "-", "0", "0", "0", "9", "-", "r", "o", "o", "k", "-", "c", "e", "p", "h", "-", "0", "1", "-", "6", "f", "-", "9", "d", "-", "e", "a", "-", "a", "7", "-", "0", "f">>,
     volumeAttributes |-> [fsName |-> <<"m", "y", "f", "s">>],
     uuid |-> <<"6", "f", "-", "9", "d", "-", "e", "a", "-", "a", "7", "-", "0", "f">>, pool |-> <<"m", "e", "t", "a">>, ns |-> <<"c", "s", "i">>,
     prefix |-> DefaultPrefix]

\* a handle of five tokens: a pool id, no uuid
VolNoUuid ==
    [name |-> <<"p", "v", "-", "d">>, csi |-> TRUE,
     volumeHandle |-> <<"0", "0", "0", "1", "-", "0", "0", "0", "4", "-", "p", "r", "o", "d", "-", "0", "2", "-", "a", "b", "c", "d">>,
     volumeAttributes |-> [pool |-> <<"r", "p", "2">>],
     uuid |-> Empty, pool |-> <<"r", "p", "2">>, ns |-> Empty, prefix |-> DefaultPrefix]

\* a handle of two tokens
VolShort ==
    [name |-> <<"p", "v", "-", "e">>, csi |-> TRUE,
     volumeHandle |-> <<"v", "o", "l", "-", "1">>,
     volumeAttributes |-> [pool |-> <<"r", "p", "1">>],
     uuid |-> Empty, pool |-> <<"r", "p", "1">>, ns |-> Empty, prefix |-> DefaultPrefix]

\* a pool-id token that is no number
VolNonNumeric ==
    [name |-> <<"p", "v", "-", "f">>, csi |-> TRUE,
     volumeHandle |-> <<"0", "0", "0", "1", "-", "0", "0", "0", "4", "-", "p", "r", "o", "d", "-", "x", "x", "-", "b", "7", "-", "c", "5", "-", "e", "9", "-", "8", "4", "-", "f", "0">>,
     volumeAttributes |-> [pool |-> <<"r", "p", "2">>],
     uuid |-> <<"b", "7", "-", "c", "5", "-", "e", "9", "-", "8", "4", "-", "f", "0">>, pool |-> <<"r", "p", "2">>, ns |-> Empty,
     prefix |-> DefaultPrefix]

\* an empty volumeHandle
VolEmptyHandle ==
    [name |-> <<"p", "v", "-", "g">>, csi |-> TRUE,
     volumeHandle |-> Empty,
     volumeAttributes |-> [pool |-> <<"r", "p", "1">>],
     uuid |-> Empty, pool |-> <<"r", "p", "1">>, ns |-> Empty, prefix |-> DefaultPrefix]

\* a volume of another kind (hostPath, nfs): spec has no csi section
VolNoCsi ==
    [name |-> <<"p", "v", "-", "h">>, csi |-> FALSE,
     volumeHandle |-> Empty,
     volumeAttributes |-> [pool |-> Empty],
     uuid |-> Empty, pool |-> Empty, ns |-> Empty, prefix |-> DefaultPrefix]

\* a volume of the pool whose id is 257
VolBigPool ==
    [name |-> <<"p", "v", "-", "i">>, csi |-> TRUE,
     volumeHandle |-> <<"0", "0", "0", "1", "-", "0", "0", "0", "4", "-", "p", "r", "o", "d", "-", "2", "5", "7", "-", "b", "7", "-", "c", "5", "-", "e", "9", "-", "8", "4", "-", "f", "1">>,
     volumeAttributes |-> [pool |-> <<"r", "p", "2", "5", "7">>],
     uuid |-> <<"b", "7", "-", "c", "5", "-", "e", "9", "-", "8", "4", "-", "f", "1">>, pool |-> <<"r", "p", "2", "5", "7">>, ns |-> Empty,
     prefix |-> DefaultPrefix]

Volumes ==
    {VolBigPool, VolRbd, VolRbdPrefix, VolFs, VolNoUuid, VolShort, VolNonNumeric,
     VolEmptyHandle, VolNoCsi}

\* the name a claim still carries after its volume was deleted
GoneVolumeName == <<"p", "v", "-", "z">>

VolumeNames == {v.name : v \in Volumes} \cup {GoneVolumeName}

VolumeNamed(name) == CHOOSE v \in Volumes : v.name = name

\* the uuid the forward map holds once it went stale
OtherUuid == <<"0", "0", "-", "0", "0", "-", "0", "0", "-", "0", "0", "-", "0", "0">>

ToolboxPod == <<"t", "o", "o", "l", "s", "-", "0">>

\* what can go wrong while a claim is processed; the model lets at most one
\* of these happen per claim
Faults ==
    {"none",
     "pv_get_fails",       \* the first `get pv` prints an error
     "handle_get_fails",   \* the second `get pv` prints an error
     "po_get_fails",       \* `get po` prints an error
     "no_toolbox_pod",     \* `get po` lists no pod
     "pool_ls_fails",      \* `ceph osd lspools` / `ceph fs ls` prints an error
     "pool_absent",        \* the listing is empty
     "omap_by_claim",      \* the omap is keyed by the claim's name
     "rev_by_claim",       \* the reverse map holds the claim's name
     "omap_empty",         \* the omap holds no key of the volume
     "omap_stale",         \* the forward value is the uuid of another image
     "fwd_fails",          \* the first `rados getomapval` cannot connect
     "rev_fails",          \* the second `rados getomapval` cannot connect
     "image_absent",       \* no such image / subvolume
     "info_fails",         \* `rbd info` / `getpath` fails for another reason
     "cm_get_fails",       \* `get cm` prints an error
     "cm_group",           \* the configmap sets subvolumeGroup to grp
     "cm_other_group"}     \* only the second cluster of the configmap sets one

SubvolGroupDefault == <<"c", "s", "i">>

SubvolGroupCustom == <<"g", "r", "p">>

(***************************************************************************)
(* What the commands print. stderr is redirected into stdout               *)
(* (stderr=subprocess.STDOUT), so a failing command is seen by the code    *)
(* only as the text it prints.                                             *)
(***************************************************************************)
KubectlExecError == <<"e", "r", "r", "o", "r", ":", " ", "e", "x", "p", "e", "c", "t", "e", "d", " ", "'", "e", "x", "e", "c", " ", "(", "P", "O", "D", " ", "|", " ", "T", "Y", "P", "E", "/", "N", "A", "M", "E", ")", " ", "C", "O", "M", "M", "A", "N", "D", "'">>

CephConnectError == <<"[", "e", "r", "r", "n", "o", " ", "1", "1", "0", "]", " ", "e", "r", "r", "o", "r", " ", "c", "o", "n", "n", "e", "c", "t", "i", "n", "g", " ", "t", "o", " ", "t", "h", "e", " ", "c", "l", "u", "s", "t", "e", "r">>

RadosNoKey == <<"e", "r", "r", "o", "r", " ", "g", "e", "t", "t", "i", "n", "g", " ", "o", "m", "a", "p", " ", "v", "a", "l", "u", "e", ":", " ", "(", "2", ")", " ", "N", "o", " ", "s", "u", "c", "h", " ", "f", "i", "l", "e", " ", "o", "r", " ", "d", "i", "r", "e", "c", "t", "o", "r", "y">>

RbdInfoText == <<"r", "b", "d", " ", "i", "m", "a", "g", "e", ":", "\n", "\t", "s", "i", "z", "e", " ", "1", " ", "G", "i", "B", " ", "i", "n", " ", "2", "5", "6", " ", "o", "b", "j", "e", "c", "t", "s", "\n", "\t", "f", "o", "r", "m", "a", "t", ":", " ", "2", "\n">>

RbdNoImage == <<"r", "b", "d", ":", " ", "e", "r", "r", "o", "r", " ", "o", "p", "e", "n", "i", "n", "g", " ", "i", "m", "a", "g", "e", ":", " ", "(", "2", ")", " ", "N", "o", " ", "s", "u", "c", "h", " ", "f", "i", "l", "e", " ", "o", "r", " ", "d", "i", "r", "e", "c", "t", "o", "r", "y">>

SubvolPathText == <<"/", "v", "o", "l", "u", "m", "e", "s", "/", "c", "s", "i", "/", "s", "u", "b", "v", "o", "l", "\n">>

SubvolNoEnt == <<"E", "r", "r", "o", "r", " ", "E", "N", "O", "E", "N", "T", ":", " ", "s", "u", "b", "v", "o", "l", "u", "m", "e", " ", "d", "o", "e", "s", " ", "n", "o", "t", " ", "e", "x", "i", "s", "t">>

HexDigits == <<"0", "1", "2", "3", "4", "5", "6", "7", "8", "9",
               "a", "b", "c", "d", "e", "f">>

LowerCase == <<"a", "b", "c", "d", "e", "f", "g", "h", "i", "j", "k", "l", "m", "n", "o", "p", "q", "r", "s", "t", "u", "v", "w", "x", "y", "z">>

UpperCase == <<"A", "B", "C", "D", "E", "F", "G", "H", "I", "J", "K", "L", "M", "N", "O", "P", "Q", "R", "S", "T", "U", "V", "W", "X", "Y", "Z">>

IndexIn(s, c) == CHOOSE i \in 1..Len(s) : s[i] = c

\* the byte of a character of a name
Ord(c) ==
    IF c = Dash THEN 45
    ELSE IF \E i \in 1..10 : Digits[i] = c THEN 47 + IndexIn(Digits, c)
    ELSE IF \E i \in 1..26 : UpperCase[i] = c THEN 64 + IndexIn(UpperCase, c)
    ELSE 96 + IndexIn(LowerCase, c)

Hex2(n) == <<HexDigits[(n \div 16) + 1], HexDigits[(n % 16) + 1]>>

\* offsets stay below 256 in every dump of the model
Hex8(n) == <<"0", "0", "0", "0", "0", "0">> \o Hex2(n)

Decimal(n) ==
    IF n < 10 THEN <<Digits[n + 1]>>
    ELSE <<Digits[(n \div 10) + 1], Digits[(n % 10) + 1]>>

\* one line of the hexdump: offset, the bytes, the text between bars
HexLine(val, off) ==
    LET n == IF Len(val) - off < 16 THEN Len(val) - off ELSE 16
        bytes == [k \in 1..n |-> Hex2(Ord(val[off + k]))]
    IN  Hex8(off) \o <<Space>> \o <<Space>> \o Join(bytes, Space)
        \o <<Space, Space, "|">> \o Slice(val, off + 1, off + n) \o <<"|">>

\* `rados getomapval OBJ KEY` of a key holding val
RadosDump(val) ==
    LET nlines == (Len(val) + 15) \div 16
    IN  Join(<<<<"v", "a", "l", "u", "e", " ", "(">> \o Decimal(Len(val)) \o <<" ", "b", "y", "t", "e", "s", ")", " ", ":">>>>
             \o [k \in 1..nlines |-> HexLine(val, 16 * (k - 1))]
             \o <<Hex8(Len(val)), Empty>>, Newline)

(***************************************************************************)
(* Commands. A command is recorded with the function that issued it        *)
(* (site), the program run (tool), its operands, whether `--id --key` was  *)
(* appended (creds) and the pod it is exec'ed in (None: run locally).      *)
(***************************************************************************)
Cmd(site, tool, target, key, pool, ns, creds) ==
    [site |-> site, tool |-> tool, target |-> target, key |-> key,
     pool |-> pool, ns |-> ns, creds |-> creds, pod |-> None]

\* the world a claim is processed in: the claim, the one thing that goes
\* wrong, and whether two equal ints above the small-int cache are one object
World(claim, fault, ident) == [claim |-> claim, fault |-> fault, ident |-> ident]

\* the volume the processed claim is bound to
WorldVolume(w) == VolumeNamed(w.claim.volumeName)

\* the keys the omap of the cluster holds for that volume
OmapRecords(w) ==
    LET v == WorldVolume(w)
        reqname == IF w.fault = "omap_by_claim" THEN w.claim.name ELSE v.name
        volname == IF w.fault \in {"omap_by_claim", "rev_by_claim"}
                   THEN w.claim.name ELSE v.name
        fwdval == IF w.fault = "omap_stale" THEN OtherUuid ELSE v.uuid
    IN  IF w.fault = "omap_empty" \/ v.uuid = Empty THEN {}
        ELSE {[pool |-> v.pool, ns |-> v.ns, obj |-> <<"c", "s", "i", ".", "v", "o", "l", "u", "m", "e", "s", ".", "d", "e", "f", "a", "u", "l", "t">>,
               key |-> <<"c", "s", "i", ".", "v", "o", "l", "u", "m", "e", ".">> \o reqname, val |-> fwdval],
              [pool |-> v.pool, ns |-> v.ns, obj |-> <<"c", "s", "i", ".", "v", "o", "l", "u", "m", "e", ".">> \o v.uuid,
               key |-> <<"c", "s", "i", ".", "v", "o", "l", "n", "a", "m", "e">>, val |-> volname]}

OmapLookup(w, cmd) ==
    {r \in OmapRecords(w) :
        r.pool = cmd.pool /\ r.ns = cmd.ns /\ r.obj = cmd.target /\ r.key = cmd.key}

PoolListing ==
    <<[poolnum |-> 1, poolname |-> <<"r", "p", "1">>], [poolnum |-> 2, poolname |-> <<"r", "p", "2">>],
      [poolnum |-> 257, poolname |-> <<"r", "p", "2", "5", "7">>]>>

FsListing == <<[name |-> <<"m", "y", "f", "s">>, metadata_pool |-> <<"m", "e", "t", "a">>]>>

\* the ceph-csi-config configmap: as Rook creates it (no config.json), or
\* with a config.json whose first cluster sets a subvolumeGroup
ConfigMapRook ==
    [data |-> TRUE, config_json |-> Empty, valid |-> TRUE, clusters |-> <<>>]

ConfigMapGroup ==
    [data |-> TRUE,
     config_json |-> <<"[", "{", "\"", "c", "l", "u", "s", "t", "e", "r", "I", "D", "\"", ":", "\"", "r", "o", "o", "k", "-", "c", "e", "p", "h", "\"", ",", "\"", "c", "e", "p", "h", "F", "S", "\"", ":", "{", "\"", "s", "u", "b", "v", "o", "l", "u", "m", "e", "G", "r", "o", "u", "p", "\"", ":", "\"", "g", "r", "p", "\"", "}", "}", "]">>,
     valid |-> TRUE,
     clusters |-> <<[cephFS |-> TRUE, hasGroup |-> TRUE, subvolumeGroup |-> SubvolGroupCustom]>>]

\* a config.json of two clusters: the first, the one the volumes are of, sets
\* no subvolumeGroup, the second does
ConfigMapOtherGroup ==
    [data |-> TRUE,
     config_json |-> <<"[", "{", "\"", "c", "l", "u", "s", "t", "e", "r", "I", "D", "\"", ":", "\"", "r", "o", "o", "k", "-", "c", "e", "p", "h", "\"", "}", ",", "{", "\"", "c", "l", "u", "s", "t", "e", "r", "I", "D", "\"", ":", "\"", "p", "r", "o", "d", "\"", ",", "\"", "c", "e", "p", "h", "F", "S", "\"", ":", "{", "\"", "s", "u", "b", "v", "o", "l", "u", "m", "e", "G", "r", "o", "u", "p", "\"", ":", "\"", "g", "r", "p", "\"", "}", "}", "]">>,
     valid |-> TRUE,
     clusters |-> <<[cephFS |-> FALSE, hasGroup |-> FALSE, subvolumeGroup |-> Empty],
                    [cephFS |-> TRUE, hasGroup |-> TRUE, subvolumeGroup |-> SubvolGroupCustom]>>]

\* the subvolume group the driver created the volume in
WorldGroup(w) == IF w.fault = "cm_group" THEN SubvolGroupCustom ELSE SubvolGroupDefault

\* stdout of the commands whose output is decoded as JSON: whether it is
\* JSON at all, and what it decodes to
PopenJson(w, cmd) ==
    CASE cmd.tool = "get pv" ->
           IF \/ cmd.site = "get_pv_data" /\ w.fault = "pv_get_fails"
              \/ cmd.site = "get_volume_handler_from_pv" /\ w.fault = "handle_get_fails"
              \/ cmd.target \notin {v.name : v \in Volumes}
           THEN [json |-> FALSE, doc |-> VolNoCsi]
           ELSE [json |-> TRUE, doc |-> VolumeNamed(cmd.target)]
      [] cmd.tool = "get po" ->
           IF w.fault = "po_get_fails" THEN [json |-> FALSE, doc |-> <<>>]
           ELSE IF w.fault = "no_toolbox_pod" THEN [json |-> TRUE, doc |-> <<>>]
           ELSE [json |-> TRUE, doc |-> <<ToolboxPod>>]
      [] cmd.tool = "ceph osd lspools" ->
           IF cmd.pod = Empty \/ w.fault = "pool_ls_fails" THEN [json |-> FALSE, doc |-> <<>>]
           ELSE IF w.fault = "pool_absent" THEN [json |-> TRUE, doc |-> <<>>]
           ELSE [json |-> TRUE, doc |-> PoolListing]
      [] cmd.tool = "ceph fs ls" ->
           IF cmd.pod = Empty \/ w.fault = "pool_ls_fails" THEN [json |-> FALSE, doc |-> <<>>]
           ELSE IF w.fault = "pool_absent" THEN [json |-> TRUE, doc |-> <<>>]
           ELSE [json |-> TRUE, doc |-> FsListing]
      [] cmd.tool = "get cm" ->
           IF w.fault = "cm_get_fails" THEN [json |-> FALSE, doc |-> ConfigMapRook]
           ELSE IF w.fault = "cm_group" THEN [json |-> TRUE, doc |-> ConfigMapGroup]
           ELSE IF w.fault = "cm_other_group"
                THEN [json |-> TRUE, doc |-> ConfigMapOtherGroup]
           ELSE [json |-> TRUE, doc |-> ConfigMapRook]

\* stdout of the commands whose output is read as text
PopenText(w, cmd) ==
    IF cmd.pod = Empty THEN KubectlExecError
    ELSE CASE cmd.tool = "rados getomapval" ->
           IF \/ cmd.site = "check_pv_name_in_rados" /\ w.fault = "fwd_fails"
              \/ cmd.site = "check_image_uuid_in_rados" /\ w.fault = "rev_fails"
           THEN CephConnectError
           ELSE IF OmapLookup(w, cmd) = {} THEN RadosNoKey
           ELSE RadosDump((CHOOSE r \in OmapLookup(w, cmd) : TRUE).val)
      [] cmd.tool = "rbd info" ->
           IF w.fault = "info_fails" THEN CephConnectError
           ELSE IF /\ w.fault # "image_absent"
                   /\ cmd.pool = WorldVolume(w).pool
                   /\ cmd.target = WorldVolume(w).prefix \o WorldVolume(w).uuid
                THEN RbdInfoText
                ELSE RbdNoImage
      [] cmd.tool = "ceph fs subvolume getpath" ->
           IF w.fault = "info_fails" THEN CephConnectError
           ELSE IF /\ w.fault # "image_absent"
                   /\ cmd.key = WorldVolume(w).volumeAttributes.fsName
                   /\ cmd.target = WorldVolume(w).prefix \o WorldVolume(w).uuid
                   /\ cmd.ns = WorldGroup(w)
                THEN SubvolPathText
                ELSE SubvolNoEnt

(***************************************************************************)
(* The functions of tracevol.py                                            *)
(***************************************************************************)
IsDigits(s) == Len(s) > 0 /\ \A i \in 1..Len(s) : \E d \in 1..10 : Digits[d] = s[i]

\* int(s) of a str of digits
RECURSIVE IntOf(_)
IntOf(s) ==
    IF Len(s) = 0 THEN 0
    ELSE 10 * IntOf(SubSeq(s, 1, Len(s) - 1)) + (IndexIn(Digits, s[Len(s)]) - 1)

\* `a is b` of two ints just made by int(): equal ints of the small-int cache
\* (-5..256) are one object; whether larger equal ints are is up to the
\* interpreter (ident)
IntIs(a, b, ident) ==
    IF a # b THEN FALSE
    ELSE IF a >= -5 /\ a <= 256 THEN TRUE
    ELSE ident

\* get_tool_box_pod_name
get_tool_box_pod_name(a, w) ==
    LET cmd == Cmd("get_tool_box_pod_name", "get po", Empty, Empty, Empty,
                   a.rooknamespace, FALSE)
        out == PopenJson(w, cmd)
    IN  IF ~out.json THEN Ok(Empty, <<cmd>>)
        ELSE IF Len(out.doc) = 0 THEN Exc("IndexError", <<cmd>>)
        ELSE Ok(out.doc[1], <<cmd>>)

\* `if arg.toolboxdeployed is True: cmd = get_cmd_prefix(arg) + cmd`
with_toolbox(a, cmd, w) ==
    IF a.toolboxdeployed
    THEN LET name == get_tool_box_pod_name(a, w)
         IN  IF name.exc # "" THEN name
             ELSE Ok([cmd EXCEPT !.pod = name.val], name.calls)
    ELSE Ok(cmd, <<>>)

\* `if not arg.userkey: cmd += ["--id", arg.userid, "--key", arg.userkey]`
with_creds(a) == a.userkey = Empty

\* the loop `for pool in pools` of get_pool_name in block mode
RECURSIVE pool_scan(_, _, _, _, _)
pool_scan(pools, i, pool_id, ident, cmds) ==
    IF i > Len(pools) THEN Ok(Empty, cmds)
    ELSE IF ~IsDigits(pool_id) THEN Exc("ValueError", cmds)
    ELSE IF IntIs(IntOf(pool_id), pools[i].poolnum, ident) THEN Ok(pools[i].poolname, cmds)
    ELSE pool_scan(pools, i + 1, pool_id, ident, cmds)

\* a faulty variant, which names a pool without asking the cluster
get_pool_name_unasked(a, vol_id, is_rbd, w) == Ok(PoolListing[1].poolname, <<>>)

\* get_pool_name
get_pool_name(a, vol_id, is_rbd, w) ==
    LET cmd == Cmd("get_pool_name",
                   IF is_rbd THEN "ceph osd lspools" ELSE "ceph fs ls",
                   Empty, Empty, Empty, Empty, with_creds(a))
        kube == with_toolbox(a, cmd, w)
    IN  IF kube.exc # "" THEN Exc(kube.exc, kube.calls)
        ELSE LET cmds == Append(kube.calls, kube.val)
                 out == PopenJson(w, kube.val)
             IN  IF ~out.json THEN Ok(Empty, cmds)
                 ELSE IF is_rbd
                 THEN LET pool_id == Split(vol_id, Dash)
                      IN  IF Len(pool_id) < 4 THEN Exc("Exception", cmds)
                          ELSE IF Contains(a.rooknamespace, pool_id[4])
                          THEN (IF Len(pool_id) < 5 THEN Exc("IndexError", cmds)
                                ELSE pool_scan(out.doc, 1, pool_id[5], w.ident, cmds))
                          ELSE pool_scan(out.doc, 1, pool_id[4], w.ident, cmds)
                 ELSE IF Len(out.doc) = 0 THEN Ok(Empty, cmds)
                      ELSE Ok(out.doc[1].metadata_pool, cmds)

\* get_pv_data
get_pv_data(a, pvname, w) ==
    LET cmd == Cmd("get_pv_data", "get pv", pvname, Empty, Empty, Empty, FALSE)
        out == PopenJson(w, cmd)
    IN  IF ~out.json THEN Exc("SystemExit", <<cmd>>) ELSE Ok(out.doc, <<cmd>>)

\* is_rbd_pv: TRUE unless the volume attributes hold fsName
is_rbd_pv(a, pvname, pvdata) ==
    IF DOMAIN pvdata = {} THEN Exc("SystemExit", <<>>)
    ELSE IF ~pvdata.csi THEN Exc("KeyError", <<>>)
    ELSE Ok("fsName" \notin DOMAIN pvdata.volumeAttributes, <<>>)

\* get_volume_handler_from_pv
get_volume_handler_from_pv(a, pvname, w) ==
    LET cmd == Cmd("get_volume_handler_from_pv", "get pv", pvname, Empty, Empty,
                   Empty, FALSE)
        out == PopenJson(w, cmd)
    IN  IF ~out.json THEN Ok(Empty, <<cmd>>)
        ELSE IF ~out.doc.csi THEN Exc("KeyError", <<cmd>>)
        ELSE Ok(out.doc.volumeHandle, <<cmd>>)

\* a faulty variant, which ignores the volumeNamePrefix attribute
get_volname_prefix_always_default(a, pvdata) ==
    IF DOMAIN pvdata = {} THEN Exc("SystemExit", <<>>)
    ELSE IF ~pvdata.csi THEN Exc("KeyError", <<>>)
    ELSE Ok(DefaultPrefix, <<>>)

\* get_volname_prefix
get_volname_prefix(a, pvdata) ==
    IF DOMAIN pvdata = {} THEN Exc("SystemExit", <<>>)
    ELSE IF ~pvdata.csi THEN Exc("KeyError", <<>>)
    ELSE IF "volumeNamePrefix" \in DOMAIN pvdata.volumeAttributes
         THEN Ok(pvdata.volumeAttributes.volumeNamePrefix, <<>>)
         ELSE Ok(DefaultPrefix, <<>>)

\* get_fsname_from_pvdata
get_fsname_from_pvdata(a, pvdata) ==
    IF DOMAIN pvdata = {} THEN Exc("SystemExit", <<>>)
    ELSE IF ~pvdata.csi THEN Exc("KeyError", <<>>)
    ELSE IF "fsName" \in DOMAIN pvdata.volumeAttributes
         THEN Ok(pvdata.volumeAttributes.fsName, <<>>)
         ELSE Exc("SystemExit", <<>>)

\* a faulty variant, which accepts whatever value the key holds
check_pv_name_in_rados_any_value(a, image_id, pvc_name, pool_name, is_rbd, w) ==
    LET omapkey == <<"c", "s", "i", ".", "v", "o", "l", "u", "m", "e", ".">> \o pvc_name
        cmd == Cmd("check_pv_name_in_rados", "rados getomapval",
                   <<"c", "s", "i", ".", "v", "o", "l", "u", "m", "e", "s", ".", "d", "e", "f", "a", "u", "l", "t">>, omapkey, pool_name,
                   IF is_rbd THEN Empty ELSE <<"c", "s", "i">>, with_creds(a))
        kube == with_toolbox(a, cmd, w)
    IN  IF kube.exc # "" THEN Exc(kube.exc, kube.calls)
        ELSE Ok(omap_value(PopenText(w, kube.val)) # Empty,
                Append(kube.calls, kube.val))

\* check_pv_name_in_rados
check_pv_name_in_rados(a, image_id, pvc_name, pool_name, is_rbd, w) ==
    LET omapkey == <<"c", "s", "i", ".", "v", "o", "l", "u", "m", "e", ".">> \o pvc_name
        cmd == Cmd("check_pv_name_in_rados", "rados getomapval",
                   <<"c", "s", "i", ".", "v", "o", "l", "u", "m", "e", "s", ".", "d", "e", "f", "a", "u", "l", "t">>, omapkey, pool_name,
                   IF is_rbd THEN Empty ELSE <<"c", "s", "i">>, with_creds(a))
        kube == with_toolbox(a, cmd, w)
    IN  IF kube.exc # "" THEN Exc(kube.exc, kube.calls)
        ELSE Ok(omap_value(PopenText(w, kube.val)) = image_id,
                Append(kube.calls, kube.val))

\* check_image_uuid_in_rados
check_image_uuid_in_rados(a, image_id, pvc_name, pool_name, is_rbd, w) ==
    LET omapkey == <<"c", "s", "i", ".", "v", "o", "l", "u", "m", "e", ".">> \o image_id
        cmd == Cmd("check_image_uuid_in_rados", "rados getomapval",
                   omapkey, <<"c", "s", "i", ".", "v", "o", "l", "n", "a", "m", "e">>, pool_name,
                   IF is_rbd THEN Empty ELSE <<"c", "s", "i">>, with_creds(a))
        kube == with_toolbox(a, cmd, w)
    IN  IF kube.exc # "" THEN Exc(kube.exc, kube.calls)
        ELSE Ok(omap_value(PopenText(w, kube.val)) = pvc_name,
                Append(kube.calls, kube.val))

\* check_image_in_cluster
check_image_in_cluster(a, image_uuid, pool_name, volname_prefix, w) ==
    LET image == volname_prefix \o image_uuid
        cmd == Cmd("check_image_in_cluster", "rbd info", image, Empty, pool_name,
                   Empty, with_creds(a))
        kube == with_toolbox(a, cmd, w)
    IN  IF kube.exc # "" THEN Exc(kube.exc, kube.calls)
        ELSE Ok(~Contains(PopenText(w, kube.val), <<"N", "o", " ", "s", "u", "c", "h", " ", "f", "i", "l", "e", " ", "o", "r", " ", "d", "i", "r", "e", "c", "t", "o", "r", "y">>),
                Append(kube.calls, kube.val))

\* get_subvol_group
get_subvol_group(a, w) ==
    LET cmd == Cmd("get_subvol_group", "get cm", a.configmap, Empty, Empty,
                   a.configmapnamespace, FALSE)
        out == PopenJson(w, cmd)
    IN  IF ~out.json THEN Exc("SystemExit", <<cmd>>)
        ELSE IF ~out.doc.data THEN Exc("KeyError", <<cmd>>)
        ELSE IF out.doc.config_json # Empty
                /\ Contains(out.doc.config_json, <<"s", "u", "b", "v", "o", "l", "u", "m", "e", "G", "r", "o", "u", "p">>)
        THEN (IF ~out.doc.valid THEN Exc("SystemExit", <<cmd>>)
              ELSE IF Len(out.doc.clusters) = 0 THEN Exc("IndexError", <<cmd>>)
              ELSE IF ~out.doc.clusters[1].cephFS \/ ~out.doc.clusters[1].hasGroup
                   THEN Exc("KeyError", <<cmd>>)
              ELSE Ok(out.doc.clusters[1].subvolumeGroup, <<cmd>>))
        ELSE Ok(SubvolGroupDefault, <<cmd>>)

\* check_subvol_path
check_subvol_path(a, subvol_name, subvol_group, fsname, w) ==
    LET cmd == Cmd("check_subvol_path", "ceph fs subvolume getpath", subvol_name,
                   fsname, Empty, subvol_group, with_creds(a))
        kube == with_toolbox(a, cmd, w)
    IN  IF kube.exc # "" THEN Exc(kube.exc, kube.calls)
        ELSE Ok(~Contains(PopenText(w, kube.val), <<"E", "r", "r", "o", "r">>),
                Append(kube.calls, kube.val))

\* check_subvol_in_cluster
check_subvol_in_cluster(a, subvol_name, fsname, w) ==
    LET subvol_group == get_subvol_group(a, w)
    IN  IF subvol_group.exc # "" THEN subvol_group
        ELSE LET path == check_subvol_path(a, subvol_name, subvol_group.val, fsname, w)
             IN  [path EXCEPT !.calls = subvol_group.calls \o path.calls]

(***************************************************************************)
(* format_and_print_tables and format_table, one step per function that    *)
(* talks to the cluster                                                    *)
(***************************************************************************)
Row(pvcname, pvname, image_name, pv_present, uuid_present, present_in_cluster) ==
    [pvc |-> pvcname, pv |-> pvname, image |-> image_name,
     pv_present |-> pv_present, uuid_present |-> uuid_present,
     present_in_cluster |-> present_in_cluster]

\* the locals of one iteration of the loop when it starts: the position of
\* the claim, the step taken last, what went wrong in the cluster so far, the
\* table chosen
\* (mode), the exception that escaped, the locals of format_table, the
\* outcome of each check ("notrun", "True", "False", "raised"), the rows
\* added and the commands issued
NewClaim(i) ==
    [index |-> i, step |-> "begin", fault |-> "none", mode |-> "", exc |-> "",
     pvdata |-> VolNoCsi,
     volume_name |-> Empty, pool_name |-> Empty, image_id |-> None,
     volname_prefix |-> Empty, fwd |-> "notrun", rev |-> "notrun",
     inv |-> "notrun", pv_present |-> FALSE, uuid_present |-> FALSE,
     rows |-> <<>>, calls |-> <<>>]

NoClaim == NewClaim(0)

Outcome(r) == IF r.exc # "" THEN "raised" ELSE IF r.val THEN "True" ELSE "False"

\* where an exception that nothing catches leaves the run
Halt(exc) == IF exc = "SystemExit" THEN "exited" ELSE "raised"

\* which step can meet which thing going wrong first
FaultsAt(step) ==
    CASE step = "get_pv_data" -> {"pv_get_fails"}
      [] step = "handle" -> {"handle_get_fails"}
      [] step = "pool" -> {"po_get_fails", "no_toolbox_pod", "pool_ls_fails", "pool_absent"}
      [] step = "forward" ->
           {"omap_by_claim", "rev_by_claim", "omap_empty", "omap_stale", "fwd_fails",
            "po_get_fails", "no_toolbox_pod"}
      [] step = "reverse" -> {"rev_fails"}
      [] step = "inventory" ->
           {"image_absent", "info_fails", "cm_get_fails", "cm_group", "cm_other_group"}

\* the things that go wrong that the model tries on a claim bound to a volume
FaultsFor(a, name) ==
    (CASE name = VolRbd.name -> Faults \ {"cm_get_fails", "cm_group", "cm_other_group"}
       [] name = VolRbdPrefix.name -> {"none", "image_absent"}
       [] name = VolFs.name ->
            {"none", "pool_absent", "omap_empty", "image_absent", "info_fails",
             "cm_get_fails", "cm_group", "cm_other_group"}
       [] OTHER -> {"none"})
    \ (IF a.toolboxdeployed THEN {} ELSE {"po_get_fails", "no_toolbox_pod"})

\* what the cluster can be like at a step: once something went wrong it
\* stays so for the rest of the claim, and nothing else goes wrong
FaultChoices(a, c, step, pvc) ==
    IF c.fault # "none" THEN {c.fault}
    ELSE {"none"} \cup (FaultsAt(step) \cap FaultsFor(a, pvc.volumeName))

\* a faulty variant, which adds the row twice
add_row_twice(mode, rows) ==
    /\ table_rbd' = IF mode = "rbd" THEN table_rbd \o rows \o rows ELSE table_rbd
    /\ table_cephfs' = IF mode = "cephfs" THEN table_cephfs \o rows \o rows ELSE table_cephfs

\* table.add_row on the table format_and_print_tables passed
add_row(mode, rows) ==
    /\ table_rbd' = IF mode = "rbd" THEN table_rbd \o rows ELSE table_rbd
    /\ table_cephfs' = IF mode = "cephfs" THEN table_cephfs \o rows ELSE table_cephfs

MaxClaims == 2

Commands == {"kubectl", "oc", "docker"}

UserKeys == {Empty, <<"A", "Q", "B">>}

Args ==
    [command : Commands, userkey : UserKeys, userid : {<<"a", "d", "m", "i", "n">>},
     toolboxdeployed : BOOLEAN, rooknamespace : {RookNamespace},
     configmap : {<<"c", "e", "p", "h", "-", "c", "s", "i", "-", "c", "o", "n", "f", "i", "g">>}, configmapnamespace : {<<"d", "e", "f", "a", "u", "l", "t">>}]

ClaimName(i) == <<"c", "l", "a", "i", "m">> \o <<Digits[i + 1]>>

\* the i-th claim of the list: Pending (no spec.volumeName) or bound
Claims(i) ==
    {[name |-> ClaimName(i), bound |-> FALSE, volumeName |-> Empty]}
    \cup {[name |-> ClaimName(i), bound |-> TRUE, volumeName |-> n] : n \in VolumeNames}

\* the lists `get pvc -o json` can decode to: a volume is bound to one claim
ClaimLists ==
    {l \in UNION {[1..n -> UNION {Claims(i) : i \in 1..n}] : n \in 0..MaxClaims} :
        /\ \A i \in 1..Len(l) : l[i].name = ClaimName(i)
        /\ \A i, j \in 1..Len(l) :
             (i # j /\ l[i].bound /\ l[j].bound) => l[i].volumeName # l[j].volumeName}

Init ==
    /\ pc = "main"
    /\ arg \in Args
    /\ pvcs = <<>>
    /\ idx = 0
    /\ table_rbd = <<>>
    /\ table_cephfs = <<>>
    /\ cur = NoClaim
    /\ call = Idle
    /\ ret = Idle

\* __main__: an unsupported command name ends the run at once
RejectCommand ==
    /\ pc = "main"
    /\ arg.command \notin {"kubectl", "oc"}
    /\ pc' = "exited"
    /\ UNCHANGED <<arg, pvcs, idx, table_rbd, table_cephfs, cur, call, ret>>

\* list_pvc_vol_name_mapping: `get pvc -o json` prints something json.loads
\* rejects
ListFails ==
    /\ pc = "main"
    /\ arg.command \in {"kubectl", "oc"}
    /\ pc' = "exited"
    /\ UNCHANGED <<arg, pvcs, idx, table_rbd, table_cephfs, cur, call, ret>>

\* list_pvc_vol_name_mapping: the claim list is decoded
ListClaims ==
    /\ pc = "main"
    /\ arg.command \in {"kubectl", "oc"}
    /\ \E l \in ClaimLists : pvcs' = l
    /\ pc' = "loop"
    /\ UNCHANGED <<arg, idx, table_rbd, table_cephfs, cur, call, ret>>

\* format_and_print_tables, the head of one iteration: the name of the bound
\* volume, get_pv_data, and is_rbd_pv choosing the table
BeginClaim ==
    /\ pc = "loop"
    /\ idx < Len(pvcs)
    /\ idx' = idx + 1
    /\ LET pvc == pvcs[idx + 1]
           new == NewClaim(idx + 1)
       IN  IF ~pvc.bound
           THEN /\ cur' = [new EXCEPT !.exc = "KeyError"]
                /\ pc' = "raised"
           ELSE \E fault \in FaultChoices(arg, new, "get_pv_data", pvc) :
                \E pvdata \in {get_pv_data(arg, pvc.volumeName, World(pvc, fault, FALSE))} :
                \E is_rbd \in {IF pvdata.exc # "" THEN Exc(pvdata.exc, <<>>)
                               ELSE is_rbd_pv(arg, pvc.volumeName, pvdata.val)} :
                   /\ cur' = [new EXCEPT
                                !.step = "get_pv_data",
                                !.fault = fault,
                                !.exc = is_rbd.exc,
                                !.calls = pvdata.calls,
                                !.pvdata = IF pvdata.exc = "" THEN pvdata.val ELSE @,
                                !.mode = IF is_rbd.exc # "" THEN ""
                                         ELSE IF is_rbd.val THEN "rbd" ELSE "cephfs"]
                   /\ pc' = IF is_rbd.exc = "" THEN "handle" ELSE Halt(is_rbd.exc)
    /\ UNCHANGED <<arg, pvcs, table_rbd, table_cephfs, call, ret>>

\* format_table: get_volume_handler_from_pv, and the row of a claim whose
\* handle came back empty
ResolveHandle ==
    /\ pc = "handle"
    /\ LET pvc == pvcs[idx]
       IN  \E fault \in FaultChoices(arg, cur, "handle", pvc) :
           \E volume_name \in {get_volume_handler_from_pv(arg, pvc.volumeName,
                                                          World(pvc, fault, FALSE))} :
           \E rows \in {IF volume_name.exc = "" /\ volume_name.val = Empty
                        THEN <<Row(pvc.name, Empty, Empty, FALSE, FALSE, FALSE)>>
                        ELSE <<>>} :
              /\ cur' = [cur EXCEPT
                           !.step = "handle",
                           !.fault = fault,
                           !.exc = volume_name.exc,
                           !.calls = @ \o volume_name.calls,
                           !.volume_name = volume_name.val,
                           !.rows = rows]
              /\ add_row(cur.mode, rows)
              /\ pc' = IF volume_name.exc # "" THEN Halt(volume_name.exc)
                       ELSE IF volume_name.val = Empty THEN "loop"
                       ELSE "pool"
    /\ UNCHANGED <<arg, pvcs, idx, call, ret>>

\* format_table: get_pool_name, then get_image_uuid and get_volname_prefix;
\* the row of a claim whose pool or image id could not be worked out
ResolvePool ==
    /\ pc = "pool"
    /\ LET pvc == pvcs[idx]
       IN  \E fault \in FaultChoices(arg, cur, "pool", pvc) :
           \E ident \in BOOLEAN :
           \E pool_name \in {get_pool_name(arg, cur.volume_name, cur.mode = "rbd",
                                           World(pvc, fault, ident))} :
           \E image_id \in {get_image_uuid(cur.volume_name)} :
           \E volname_prefix \in {get_volname_prefix(arg, cur.pvdata)} :
           \E failed \in {pool_name.exc = "" /\ (pool_name.val = Empty \/ image_id = None)} :
           \E exc \in {IF pool_name.exc # "" \/ failed THEN pool_name.exc
                       ELSE volname_prefix.exc} :
           \E rows \in {IF failed
                        THEN <<Row(pvc.name, pvc.volumeName, Empty, FALSE, FALSE, FALSE)>>
                        ELSE <<>>} :
              /\ cur' = [cur EXCEPT
                           !.step = "pool",
                           !.fault = fault,
                           !.exc = exc,
                           !.calls = @ \o pool_name.calls,
                           !.pool_name = pool_name.val,
                           !.image_id = IF pool_name.exc = "" /\ pool_name.val # Empty
                                        THEN image_id ELSE @,
                           !.volname_prefix = IF exc = "" /\ ~failed
                                              THEN volname_prefix.val ELSE @,
                           !.rows = rows]
              /\ add_row(cur.mode, rows)
              /\ pc' = IF exc # "" THEN Halt(exc)
                       ELSE IF failed THEN "loop"
                       ELSE "forward"
    /\ UNCHANGED <<arg, pvcs, idx, call, ret>>

\* validate_volume_in_rados: check_pv_name_in_rados
CheckForward ==
    /\ pc = "forward"
    /\ LET pvc == pvcs[idx]
       IN  \E fault \in FaultChoices(arg, cur, "forward", pvc) :
           \E pv_present \in {check_pv_name_in_rados(arg, cur.image_id, pvc.volumeName,
                                  cur.pool_name, cur.mode = "rbd",
                                  World(pvc, fault, FALSE))} :
              /\ cur' = [cur EXCEPT
                           !.step = "forward",
                           !.fault = fault,
                           !.exc = pv_present.exc,
                           !.calls = @ \o pv_present.calls,
                           !.fwd = Outcome(pv_present),
                           !.pv_present = pv_present.exc = "" /\ pv_present.val]
              /\ pc' = IF pv_present.exc # "" THEN Halt(pv_present.exc) ELSE "reverse"
    /\ UNCHANGED <<arg, pvcs, idx, table_rbd, table_cephfs, call, ret>>

\* validate_volume_in_rados: check_image_uuid_in_rados
CheckReverse ==
    /\ pc = "reverse"
    /\ LET pvc == pvcs[idx]
       IN  \E fault \in FaultChoices(arg, cur, "reverse", pvc) :
           \E uuid_present \in {check_image_uuid_in_rados(arg, cur.image_id,
                                    pvc.volumeName, cur.pool_name, cur.mode = "rbd",
                                    World(pvc, fault, FALSE))} :
              /\ cur' = [cur EXCEPT
                           !.step = "reverse",
                           !.fault = fault,
                           !.exc = uuid_present.exc,
                           !.calls = @ \o uuid_present.calls,
                           !.rev = Outcome(uuid_present),
                           !.uuid_present = uuid_present.exc = "" /\ uuid_present.val]
              /\ pc' = IF uuid_present.exc # "" THEN Halt(uuid_present.exc)
                       ELSE "inventory"
    /\ UNCHANGED <<arg, pvcs, idx, table_rbd, table_cephfs, call, ret>>

\* format_table: the inventory check of the mode, and the row of the claim
CheckInventory ==
    /\ pc = "inventory"
    /\ LET pvc == pvcs[idx]
       IN  \E fault \in FaultChoices(arg, cur, "inventory", pvc) :
           \E fsname \in {IF cur.mode = "rbd" THEN Ok(Empty, <<>>)
                          ELSE get_fsname_from_pvdata(arg, cur.pvdata)} :
           \E present_in_cluster \in
                 {IF cur.mode = "rbd"
                  THEN check_image_in_cluster(arg, cur.image_id, cur.pool_name,
                                              cur.volname_prefix, World(pvc, fault, FALSE))
                  ELSE IF fsname.exc # "" THEN Exc(fsname.exc, <<>>)
                  ELSE check_subvol_in_cluster(arg, cur.volname_prefix \o cur.image_id,
                                               fsname.val, World(pvc, fault, FALSE))} :
           \E rows \in {IF present_in_cluster.exc # "" THEN <<>>
                        ELSE <<Row(pvc.name, pvc.volumeName,
                                   cur.volname_prefix \o cur.image_id, cur.pv_present,
                                   cur.uuid_present, present_in_cluster.val)>>} :
              /\ cur' = [cur EXCEPT
                           !.step = "inventory",
                           !.fault = fault,
                           !.exc = present_in_cluster.exc,
                           !.calls = @ \o present_in_cluster.calls,
                           !.inv = Outcome(present_in_cluster),
                           !.rows = rows]
              /\ add_row(cur.mode, rows)
              /\ pc' = IF present_in_cluster.exc # "" THEN Halt(present_in_cluster.exc)
                       ELSE "loop"
    /\ UNCHANGED <<arg, pvcs, idx, call, ret>>

\* format_and_print_tables: both tables are printed
PrintTables ==
    /\ pc = "loop"
    /\ idx = Len(pvcs)
    /\ pc' = "printed"
    /\ UNCHANGED <<arg, pvcs, idx, table_rbd, table_cephfs, cur, call, ret>>

Next ==
    \/ RejectCommand
    \/ ListFails
    \/ ListClaims
    \/ BeginClaim
    \/ ResolveHandle
    \/ ResolvePool
    \/ CheckForward
    \/ CheckReverse
    \/ CheckInventory
    \/ PrintTables

Spec == Init /\ [][Next]_vars

(***************************************************************************)
(* Bounded inputs of the helper specifications                             *)
(***************************************************************************)
MaxHandleLen == 11

HandleAlphabet == {Dash, "a"}

\* pvc-1234-rbd-rook-ceph-a-b-c-d-e
ExampleHandle == <<"p", "v", "c", "-", "1", "2", "3", "4", "-", "r", "b", "d", "-", "r", "o", "o", "k", "-", "c", "e", "p", "h", "-", "a", "-", "b", "-", "c", "-", "d", "-", "e">>

ExampleUuid == <<"a", "-", "b", "-", "c", "-", "d", "-", "e">>

\* every str over alphabet of length at most n
AllStrings(alphabet, n) == UNION {[1..k -> alphabet] : k \in 0..n}

MaxDumpLines == 3

\* lines a `rados getomapval` dump is made of, and lines that only look like them
AnnotationLine == <<"v", "a", "l", "u", "e", " ", "(", "8", " ", "b", "y", "t", "e", "s", ")", " ", ":">>

HexdumpLine == <<"0", "0", "0", "0", "0", "0", "0", "0", " ", " ", "6", "1", " ", "6", "2", " ", "2", "d", " ", "3", "1", " ", "3", "2", " ", "2", "d", " ", "6", "3", " ", "6", "4", " ", " ", "|", "a", "b", "-", "1", "2", "-", "c", "d", "|">>

SpecExampleLine == <<"0", "0", "0", "0", "0", "0", "0", "0", " ", " ", "7", "6", " ", "6", "1", " ", "6", "c", " ", "7", "5", " ", "6", "5", " ", "(", "6", " ", "b", "y", "t", "e", "s", ")">>

BareValueLine == <<"a", "b", "-", "1", "2", "-", "c", "d">>

OffsetLine == <<"0", "0", "0", "0", "0", "0", "0", "8">>

ErrorLine == <<"e", "r", "r", "o", "r", " ", "g", "e", "t", "t", "i", "n", "g", " ", "o", "m", "a", "p", " ", "v", "a", "l", "u", "e">>

PaddedLine == <<" ", " ", "|", "1", "2", "-", "c", "d", "|", " ", "a", "b", " ", " ">>

NoRunLine == <<"|", " ", "|">>

ValueOnlyLine == <<"v", "a", "l", "u", "e", " ", "o", "f", " ", "x">>

DumpLinePool ==
    {AnnotationLine, HexdumpLine, SpecExampleLine, BareValueLine, OffsetLine,
     ErrorLine, PaddedLine, NoRunLine, ValueOnlyLine, <<>>}

DumpLineSeqs == UNION {[1..k -> DumpLinePool] : k \in 0..MaxDumpLines}

\* the variables of the batch run, while a helper is exercised on its own
RunIdle ==
    /\ arg = [command |-> "oc"]
    /\ pvcs = <<>>
    /\ idx = 0
    /\ table_rbd = <<>>
    /\ table_cephfs = <<>>
    /\ cur = Idle

(***************************************************************************)
(* get_image_uuid applied to every handle                                  *)
(***************************************************************************)
InitUuid ==
    /\ pc = "input"
    /\ call \in AllStrings(HandleAlphabet, MaxHandleLen) \cup {ExampleHandle}
    /\ ret = Idle
    /\ RunIdle

DecodeUuid ==
    /\ pc = "input"
    /\ ret' = get_image_uuid(call)
    /\ pc' = "returned"
    /\ UNCHANGED <<arg, pvcs, idx, table_rbd, table_cephfs, cur, call>>

NextUuid == DecodeUuid

SpecUuid == InitUuid /\ [][NextUuid]_vars

(***************************************************************************)
(* The omap value parser applied to dumps                                  *)
(***************************************************************************)
InitParse ==
    /\ pc = "input"
    /\ call \in DumpLineSeqs
    /\ ret = Idle
    /\ RunIdle

\* stdout is the lines joined by newlines; the parser splits it again
ParseDump ==
    /\ pc = "input"
    /\ ret' = omap_value(Join(call, Newline))
    /\ pc' = "returned"
    /\ UNCHANGED <<arg, pvcs, idx, table_rbd, table_cephfs, cur, call>>

NextParse == ParseDump

SpecParse == InitParse /\ [][NextParse]_vars

(***************************************************************************)
(* scripts/get_patch_release.py                                            *)
(***************************************************************************)
Dot == "."

StartsWith(s, prefix) ==
    Len(s) >= Len(prefix) /\ SubSeq(s, 1, Len(prefix)) = prefix

\* sys.exit(code) after the lines printed; exc is the exception that escaped
Exit(code, lines) == [exc |-> "", code |-> code, out |-> lines]

Traceback(type) == [exc |-> type, code |-> 1, out |-> <<>>]

\* what print('Error: %s' % err) prints, the text of err left out
FetchErrorLine == <<"E", "r", "r", "o", "r", ":", " ">>

\* the loop `for release in releases` of main() when --version is given
RECURSIVE first_release(_, _, _)
first_release(releases, i, version) ==
    IF i > Len(releases) THEN Exit(1, <<>>)
    ELSE IF releases[i] = None THEN Traceback("AttributeError")
    ELSE IF StartsWith(releases[i], version \o <<Dot>>) THEN Exit(0, <<releases[i]>>)
    ELSE first_release(releases, i + 1, version)

\* main(): version is args.version (None when --version is not passed), res
\* is what get_json_releases gives: whether it returned, and the names
main(version, res) ==
    IF ~res.ok THEN Exit(1, <<FetchErrorLine>>)
    ELSE IF version = None \/ version = Empty THEN Exit(0, res.releases)
    ELSE LET v == IF StartsWith(version, <<"v">>) THEN version ELSE <<"v">> \o version
         IN  IF Len(Split(v, Dot)) >= 3 THEN Exit(0, <<v>>)
             ELSE first_release(res.releases, 1, v)

MaxReleases == 2

\* values of --version
VersionPool ==
    {None, Empty, <<"1", ".", "1">>, <<"v", "1", ".", "1">>, <<"v", "1", ".", "1", ".", "3">>, <<"1", ".", "1", ".", "3">>, <<"v", "1">>, <<"v", "1", ".", "1", ".">>, <<"v", "2", ".", "0">>,
     <<"1", ".", "1", ".", "3", ".", "4">>, <<"v", "v", "1", ".", "1">>}

\* names of releases; GitHub gives null for a release without a title
ReleasePool == {<<"v", "1", ".", "1", ".", "3">>, <<"v", "1", ".", "1", ".", "2">>, <<"v", "1", ".", "1", "0", ".", "1">>, <<"v", "1", ".", "2", ".", "0">>, <<"v", "1", ".", "1">>, None}

ReleaseLists == UNION {[1..n -> ReleasePool] : n \in 0..MaxReleases}

InitRelease ==
    /\ pc = "input"
    /\ call \in [version : VersionPool, ok : BOOLEAN, releases : ReleaseLists]
    /\ ret = Idle
    /\ RunIdle

RunMain ==
    /\ pc = "input"
    /\ ret' = main(call.version, [ok |-> call.ok, releases |-> call.releases])
    /\ pc' = "returned"
    /\ UNCHANGED <<arg, pvcs, idx, table_rbd, table_cephfs, cur, call>>

NextRelease == RunMain

SpecRelease == InitRelease /\ [][NextRelease]_vars

(***************************************************************************)
(* CLAIMS                                                                  *)
(***************************************************************************)
\* the claim being processed, or processed last, and the volume it is bound to
CurClaim == pvcs[cur.index]

CurVolume == VolumeNamed(CurClaim.volumeName)

\* no step of that claim is pending
Settled == cur.index > 0 /\ pc \in {"loop", "printed", "raised", "exited"}

\* C1: a claim whose volume, handle, UUID or pool could not be resolved (its
\* processing ended before the forward-map check began) has exactly one row,
\* carrying the claim's name, an empty image name and three False, and the
\* run goes on to the next claim: it neither raised nor exited.
C1_ResolutionFailureAddsRowAndContinues ==
    (Settled /\ cur.fwd = "notrun") =>
        /\ pc \in {"loop", "printed"}
        /\ Len(cur.rows) = 1
        /\ cur.rows[1].pvc = CurClaim.name
        /\ cur.rows[1].image = Empty
        /\ ~cur.rows[1].pv_present
        /\ ~cur.rows[1].uuid_present
        /\ ~cur.rows[1].present_in_cluster

DashesOf(s) == {i \in 1..Len(s) : s[i] = Dash}

\* C2: get_image_uuid returns None for a handle of fewer than 9 dash-delimited
\* tokens (fewer than 8 dashes) and otherwise the text after the fifth dash
\* from the end, i.e. the last 5 tokens rejoined with dashes; the handle
\* pvc-1234-rbd-rook-ceph-a-b-c-d-e decodes to a-b-c-d-e.
C2_UuidIsLastFiveTokens ==
    pc = "returned" =>
        /\ IF Cardinality(DashesOf(call)) < 8 THEN ret = None
           ELSE \E p \in DashesOf(call) :
                    /\ Cardinality({d \in DashesOf(call) : d > p}) = 4
                    /\ ret = SubSeq(call, p + 1, Len(call))
        /\ call = ExampleHandle => ret = ExampleUuid

C2_Witness ==
    /\ pc = "returned"
    /\ Cardinality(DashesOf(call)) > 8
    /\ ret # None
    /\ Len(ret) > 5

IsAnnotation(line) == Contains(line, ValueWord) /\ Contains(line, BytesWord)

\* a line the parser reads: not an annotation, and a space inside once stripped
IsValueLine(line) ==
    /\ ~IsAnnotation(line)
    /\ \E j \in 1..Len(line) :
          /\ line[j] = Space
          /\ \E i \in 1..(j - 1) : line[i] \notin Whitespace
          /\ \E k \in (j + 1)..Len(line) : line[k] \notin Whitespace

\* every alphanumeric/dash character of the line, in order
AllRunsOf(line) == SelectSeq(line, LAMBDA c : c \in RunChars)

\* the last alphanumeric/dash run of the line
LastRunOf(line) ==
    LET at == {i \in 1..Len(line) : line[i] \in RunChars}
    IN  IF at = {} THEN <<>>
        ELSE LET q == CHOOSE i \in at : \A j \in at : j <= i
                 p == CHOOSE i \in at :
                        /\ \A j \in i..q : j \in at
                        /\ (i - 1) \notin at
             IN  SubSeq(line, p, q)

RECURSIVE ConcatLastRuns(_)
ConcatLastRuns(lines) ==
    IF lines = <<>> THEN <<>>
    ELSE (IF IsValueLine(Head(lines)) THEN LastRunOf(Head(lines)) ELSE <<>>)
         \o ConcatLastRuns(Tail(lines))

RECURSIVE ConcatAllRuns(_)
ConcatAllRuns(lines) ==
    IF lines = <<>> THEN <<>>
    ELSE (IF IsValueLine(Head(lines)) THEN AllRunsOf(Head(lines)) ELSE <<>>)
         \o ConcatAllRuns(Tail(lines))

RealDump == <<AnnotationLine, HexdumpLine, OffsetLine>>

SpecExampleDump == <<SpecExampleLine, BareValueLine>>

\* C3 (as amended): the parser ignores annotation lines and lines without an
\* inner space, and the value is the in-order concatenation of the LAST
\* alphanumeric/dash run of each remaining line; a real dump of ab-12-cd gives
\* ab-12-cd, and the dump of the claim's example gives "bytes".
C3_ValueIsLastRuns ==
    pc = "returned" =>
        /\ ret = ConcatLastRuns(call)
        /\ call = RealDump => ret = BareValueLine
        /\ call = SpecExampleDump => ret = BytesWord

C3_Witness ==
    /\ pc = "returned"
    /\ call = RealDump
    /\ ret = BareValueLine

\* C3 (as claimed): the value is the concatenation of all alphanumeric/dash
\* runs of the remaining lines, and the example dump gives ab-12-cd.
C3_ValueIsAllRuns ==
    pc = "returned" =>
        /\ ret = ConcatAllRuns(call)
        /\ call = SpecExampleDump => ret = BareValueLine

\* the values the omap of the cluster holds under key of object obj
Stored(w, obj, key) ==
    {r.val : r \in {r \in OmapRecords(w) : r.obj = obj /\ r.key = key}}

\* whether the lookup of a check reaches the omap: the toolbox pod is found
\* and the rados command connects
LookupWorks(site) ==
    cur.fault \notin {"po_get_fails", IF site = "forward" THEN "fwd_fails" ELSE "rev_fails"}

\* the two booleans of a claim both of whose map checks returned, against the
\* omap of the cluster, the maps being keyed by reqname
MapsKeyedBy(reqname) ==
    (cur.index > 0 /\ cur.rev \in {"True", "False"}) =>
        LET w == World(CurClaim, cur.fault, FALSE)
        IN  /\ LookupWorks("forward") =>
                  (cur.pv_present <=>
                     Stored(w, <<"c", "s", "i", ".", "v", "o", "l", "u", "m", "e", "s", ".", "d", "e", "f", "a", "u", "l", "t">>, <<"c", "s", "i", ".", "v", "o", "l", "u", "m", "e", ".">> \o reqname)
                        = {cur.image_id})
            /\ LookupWorks("reverse") =>
                  (cur.uuid_present <=>
                     Stored(w, <<"c", "s", "i", ".", "v", "o", "l", "u", "m", "e", ".">> \o cur.image_id, <<"c", "s", "i", ".", "v", "o", "l", "n", "a", "m", "e">>)
                        = {reqname})

\* C4 (as amended): whenever its lookup reaches the omap, the forward boolean
\* is True exactly when the value stored in csi.volumes.default under
\* csi.volume.<name of the bound Volume> is the decoded image id, and the
\* reverse boolean is True exactly when the value stored in
\* csi.volume.<image id> under csi.volname is the name of the bound Volume.
C4_MapsKeyedByVolumeName == MapsKeyedBy(CurClaim.volumeName)

C4_Witness ==
    /\ pc = "inventory"
    /\ cur.fault = "omap_stale"
    /\ ~cur.pv_present
    /\ cur.uuid_present

\* C4 (as claimed): the forward key is built from the name of the VolumeClaim
\* and the reverse value is compared with the name of the VolumeClaim.
C4_MapsKeyedByClaimName == MapsKeyedBy(CurClaim.name)

\* C5: none of the three checks raises or exits, and a check whose
\* subprocess fails gives False.
C5_ChecksGiveFalseOnFailure ==
    /\ cur.fwd # "raised"
    /\ cur.rev # "raised"
    /\ cur.inv # "raised"
    /\ (cur.fault = "fwd_fails" /\ cur.fwd # "notrun") => cur.fwd = "False"
    /\ (cur.fault = "rev_fails" /\ cur.rev # "notrun") => cur.rev = "False"
    /\ (cur.fault = "info_fails" /\ cur.inv # "notrun") => cur.inv = "False"

\* C6: get_pool_name never raises: a handle without a numeric pool id, a
\* failed command or an unmatched pool id give the empty string.
C6_PoolNameFailsClosed ==
    cur.step = "pool" =>
        /\ cur.exc = ""
        /\ (\/ cur.fault \in {"po_get_fails", "pool_ls_fails", "pool_absent"}
            \/ CurVolume \in {VolShort, VolNonNumeric}) => cur.pool_name = Empty

\* the token of a block-mode handle that holds the pool id
PoolToken(handle) ==
    LET tokens == Split(handle, Dash)
    IN  IF Contains(RookNamespace, tokens[4]) THEN tokens[5] ELSE tokens[4]

\* C7: in block mode, with the pool listing at hand, get_pool_name returns
\* the name of the listed pool whose id is the handle's pool-id token read as
\* an integer, whatever the id.
C7_PoolOfEveryId ==
    (cur.step = "pool" /\ cur.mode = "rbd" /\ cur.fault = "none" /\ cur.exc = "") =>
        \A i \in 1..Len(PoolListing) :
            PoolListing[i].poolnum = IntOf(PoolToken(cur.volume_name))
                => cur.pool_name = PoolListing[i].poolname

\* C8: in block mode the inventory boolean is False when `rbd info` reports
\* the image missing or fails, True otherwise, and the row carries the
\* forward and reverse booleans unchanged.
C8_InventoryOfImage ==
    (cur.step = "inventory" /\ cur.mode = "rbd" /\ cur.exc = "") =>
        /\ cur.fault \in {"image_absent", "info_fails"} => cur.inv = "False"
        /\ cur.fault = "none" => cur.inv = "True"
        /\ cur.rows[1].pv_present = cur.pv_present
        /\ cur.rows[1].uuid_present = cur.uuid_present

\* the image name prefix of a volume: its volumeNamePrefix attribute, csi-vol-
\* when it has none
PrefixOf(v) ==
    IF "volumeNamePrefix" \in DOMAIN v.volumeAttributes
    THEN v.volumeAttributes.volumeNamePrefix
    ELSE <<"c", "s", "i", "-", "v", "o", "l", "-">>

\* the row of a block-mode claim that went through all the checks in a
\* cluster where what is wrong is fault
FullRowWhen(fault) ==
    (pc = "loop" /\ cur.step = "inventory" /\ cur.mode = "rbd" /\ cur.fault = fault) =>
        cur.rows = <<Row(CurClaim.name, CurVolume.name,
                         PrefixOf(CurVolume) \o CurVolume.uuid, TRUE, TRUE, TRUE)>>

\* C9 (as amended): when everything resolves, the forward map returns the
\* image id, the reverse map returns the name of the bound Volume and
\* `rbd info` succeeds, the row is (claim name, volume name, prefix + UUID,
\* True, True, True), the prefix being volumeNamePrefix when set, else csi-vol-.
C9_FullRowWhenReverseHoldsVolumeName == FullRowWhen("none")

C9_Witness ==
    /\ pc = "loop"
    /\ cur.step = "inventory"
    /\ cur.fault = "none"
    /\ CurVolume = VolRbdPrefix
    /\ table_rbd[Len(table_rbd)].image = <<"i", "m", "g", "-", "b", "7", "-", "c", "5", "-", "e", "9", "-", "8", "4", "-", "f", "0">>
    /\ table_rbd[Len(table_rbd)].uuid_present

\* C9 (as claimed): the same row when the reverse map returns the name of the
\* VolumeClaim.
C9_FullRowWhenReverseHoldsClaimName == FullRowWhen("rev_by_claim")

\* the rows of a claim in a table
RowsOf(table, name) == {k \in 1..Len(table) : table[k].pvc = name}

\* the claims whose iteration of the loop ended
Processed == {i \in 1..Len(pvcs) : i < idx \/ (i = idx /\ pc \in {"loop", "printed"})}

IsFs(volumeName) == "fsName" \in DOMAIN VolumeNamed(volumeName).volumeAttributes

\* the mode a command belongs to
ModeOfCall(c) ==
    CASE c.tool \in {"ceph osd lspools", "rbd info"} -> "rbd"
      [] c.tool \in {"ceph fs ls", "ceph fs subvolume getpath", "get cm"} -> "cephfs"
      [] c.tool = "rados getomapval" -> IF c.ns = Empty THEN "rbd" ELSE "cephfs"
      [] OTHER -> cur.mode

OneRowPerClaim ==
    /\ \A i \in Processed :
          /\ Cardinality(RowsOf(table_rbd, pvcs[i].name))
               = IF IsFs(pvcs[i].volumeName) THEN 0 ELSE 1
          /\ Cardinality(RowsOf(table_cephfs, pvcs[i].name))
               = IF IsFs(pvcs[i].volumeName) THEN 1 ELSE 0
    /\ cur.mode # "" =>
          /\ cur.mode = IF IsFs(CurClaim.volumeName) THEN "cephfs" ELSE "rbd"
          /\ \A k \in 1..Len(cur.calls) : ModeOfCall(cur.calls[k]) = cur.mode

RowsNeverChange ==
    /\ Len(table_rbd') >= Len(table_rbd)
    /\ Len(table_cephfs') >= Len(table_cephfs)
    /\ SubSeq(table_rbd', 1, Len(table_rbd)) = table_rbd
    /\ SubSeq(table_cephfs', 1, Len(table_cephfs)) = table_cephfs

\* C10: every claim whose processing ended has exactly one row, in the
\* filesystem table when its volume has the fsName attribute and in the block
\* table when it has none; the mode of a claim is that of its table and of
\* every command issued for it; a row once added is never changed or removed.
C10_OneRowInTheTableOfTheMode == []OneRowPerClaim /\ [][RowsNeverChange]_vars

C10_Witness ==
    /\ pc = "printed"
    /\ Len(pvcs) = 2
    /\ Len(table_rbd) = 1
    /\ Len(table_cephfs) = 1
    /\ table_cephfs[1].present_in_cluster

\* the run ended on an input no claim can be blamed for: an unsupported
\* command name, a claim list that is no JSON, a configmap that is no JSON
InputErrorsExit ==
    /\ (arg.command \notin {"kubectl", "oc"} /\ pc # "main") =>
          /\ pc = "exited"
          /\ pvcs = <<>>
          /\ cur = NoClaim
    /\ (cur.index > 0 /\ cur.step = "inventory" /\ cur.fault = "cm_get_fails") =>
          /\ pc = "exited"
          /\ cur.rows = <<>>

\* C11: an unsupported command name exits before any lookup, a claim list or
\* a configmap that is no JSON exits without printing a table, and a claim
\* whose volume, handle, UUID or pool cannot be resolved does not end the run.
C11_OnlyInputErrorsTerminate ==
    /\ InputErrorsExit
    /\ (Settled /\ cur.fwd = "notrun") => pc \in {"loop", "printed"}

\* --version as the script uses it: with a leading v
WithV(version) == IF version[1] = "v" THEN version ELSE <<"v">> \o version

\* the releases of the list that belong to a major version
PatchesOf(releases, v) ==
    {i \in 1..Len(releases) :
        releases[i] # None /\ StartsWith(releases[i], v \o <<Dot>>)}

\* C12: with --version, a version of three or more dot-separated parts is
\* printed (with a leading v) and the exit code is 0; otherwise the first
\* release of the list whose name starts with the version and a dot is
\* printed with exit code 0, and the exit code is 1 when there is none.
C12_PatchReleaseOfVersion ==
    (pc = "returned" /\ call.version \notin {None, Empty}) =>
        LET v == WithV(call.version)
            patches == PatchesOf(call.releases, v)
        IN  IF Cardinality({i \in 1..Len(v) : v[i] = Dot}) >= 2
            THEN ret = Exit(0, <<v>>)
            ELSE IF patches = {} THEN ret.code = 1
            ELSE ret = Exit(0, <<call.releases[CHOOSE i \in patches :
                                                  \A j \in patches : i <= j]>>)

\* the subvolume groups the getpath commands of the claim were given
GroupsUsed == {cur.calls[k].ns : k \in {j \in 1..Len(cur.calls) :
                                           cur.calls[j].tool = "ceph fs subvolume getpath"}}

\* C13: in filesystem mode, once the configmap was read, getpath is called
\* with the subvolumeGroup the configmap sets for the cluster of the volume
\* and with csi when it sets none, and the inventory boolean is False when the
\* output of getpath bears an error and True otherwise.
C13_SubvolumeGroupAndPath ==
    (/\ cur.index > 0
     /\ cur.step = "inventory"
     /\ cur.mode = "cephfs"
     /\ cur.fault # "cm_get_fails") =>
        /\ GroupsUsed = {WorldGroup(World(CurClaim, cur.fault, FALSE))}
        /\ cur.inv = IF cur.fault \in {"image_absent", "info_fails"}
                     THEN "False" ELSE "True"

\* the place of a function in the reconciliation of one claim
Rank(site) ==
    CASE site = "get_pv_data" -> 1
      [] site = "get_volume_handler_from_pv" -> 2
      [] site = "get_pool_name" -> 3
      [] site = "check_pv_name_in_rados" -> 4
      [] site = "check_image_uuid_in_rados" -> 5
      [] site \in {"check_image_in_cluster", "get_subvol_group"} -> 6
      [] site = "check_subvol_path" -> 7

\* the commands of the claim, the toolbox pod lookups that precede them left out
StepsTaken == SelectSeq(cur.calls, LAMBDA c : c.site # "get_tool_box_pod_name")

InOrder ==
    \A k \in 1..(Len(StepsTaken) - 1) :
        Rank(StepsTaken[k].site) < Rank(StepsTaken[k + 1].site)

PoolListed == \E k \in 1..Len(cur.calls) : cur.calls[k].site = "get_pool_name"

\* the row comes last: no step of the claim is pending, and the checks that
\* were begun all returned
RowComesLast ==
    cur.rows # <<>> =>
        /\ pc \in {"loop", "printed"}
        /\ cur.fwd # "notrun" => (cur.rev \in {"True", "False"} /\ cur.inv \in {"True", "False"})

\* C14 (as amended): the commands of a claim are issued in the order volume,
\* handle, pool listing, forward map, reverse map, inventory; the UUID is
\* decoded after the pool was resolved, never before; the row is added after
\* all the checks that run.
C14_PoolBeforeUuid ==
    cur.index > 0 =>
        /\ InOrder
        /\ cur.image_id # None => (PoolListed /\ cur.pool_name # Empty)
        /\ RowComesLast

C14_Witness ==
    /\ pc = "loop"
    /\ PoolListed
    /\ Cardinality(DashesOf(cur.volume_name)) < 8
    /\ cur.pool_name # Empty
    /\ cur.image_id = None
    /\ Len(cur.rows) = 1

\* C14 (as claimed): the UUID is decoded before the pool is resolved, so no
\* pool listing is asked for a handle of fewer than 9 tokens.
C14_UuidBeforePool ==
    cur.index > 0 =>
        /\ InOrder
        /\ PoolListed => Cardinality(DashesOf(cur.volume_name)) >= 8
        /\ RowComesLast

\* the programs run against the storage cluster
BackendTools ==
    {"ceph osd lspools", "ceph fs ls", "rados getomapval", "rbd info",
     "ceph fs subvolume getpath"}

\* C15: when a non-empty user key is given, every command run against the
\* storage cluster carries `--id <userid> --key <userkey>`.
C15_UserKeyIsPassedOn ==
    (cur.index > 0 /\ arg.userkey # Empty) =>
        \A k \in 1..Len(cur.calls) :
            cur.calls[k].tool \in BackendTools => cur.calls[k].creds

====
